---- MODULE Spec2Model ----
(***************************************************************************)
(* Model of the news / research aggregation pipeline of src/main.py:       *)
(* keyword parsing, date window validation, the three provider clients,    *)
(* relevance ranking, per-term aggregation and the Slack notification.     *)
(*                                                                         *)
(* Strings are sequences of one-character strings, so that parsing,        *)
(* formatting, stripping and substring counting are computed on the        *)
(* characters as the Python code computes them.                            *)
(***************************************************************************)
EXTENDS Integers, Sequences, FiniteSets, TLC

VARIABLES
    cfg,        \* process environment: credentials and webhook URL present?
    now,        \* get_korea_time(): the civil date of the UTC+9 clock
    req,        \* the request body being served
    pc,         \* position of the request handler
    keywords,   \* parse_keywords(request.keyword)
    window,     \* resolved (start_date, end_date) strings of search_news
    kwIdx,      \* index of the term the aggregation loop is at
    pageIdx,    \* index into (1, 11, 21) of the next research page
    collected,  \* get_research_results: items collected for the current term
    items,      \* news_items / research_items merged so far
    calls,      \* every requests.get / requests.post issued, in order
    outcome,    \* what the handler returned or raised
    fin,        \* arguments of the function under study (function specs)
    fout        \* its result

vars == <<cfg, now, req, pc, keywords, window, kwIdx, pageIdx, collected,
          items, calls, outcome, fin, fout>>

----------------------------------------------------------------------------
(* Python helpers on strings and lists                                     *)

WS == {" ", "\n"}

Digits == <<"0", "1", "2", "3", "4", "5", "6", "7", "8", "9">>

IsDigit(c) == \E i \in 1..10 : Digits[i] = c

DigitVal(c) == (CHOOSE i \in 1..10 : Digits[i] = c) - 1

Min(a, b) == IF a <= b THEN a ELSE b

\* s[:n] of a Python list
Take(s, n) == SubSeq(s, 1, Min(n, Len(s)))

\* text.startswith(sub, i - 1)
MatchAt(text, sub, i) ==
    /\ i + Len(sub) - 1 <= Len(text)
    /\ \A j \in 1..Len(sub) : text[i + j - 1] = sub[j]

RECURSIVE LStrip(_)
LStrip(s) == IF s # <<>> /\ Head(s) \in WS THEN LStrip(Tail(s)) ELSE s

RECURSIVE RStrip(_)
RStrip(s) ==
    IF s # <<>> /\ s[Len(s)] \in WS THEN RStrip(SubSeq(s, 1, Len(s) - 1)) ELSE s

\* str.strip()
Strip(s) == RStrip(LStrip(s))

\* str.count(sub): non-overlapping occurrences scanned from the left;
\* the empty substring is found at every gap.
RECURSIVE CountFrom(_, _, _)
CountFrom(text, sub, i) ==
    IF i + Len(sub) - 1 > Len(text) THEN 0
    ELSE IF MatchAt(text, sub, i)
         THEN 1 + CountFrom(text, sub, i + Len(sub))
         ELSE CountFrom(text, sub, i + 1)

StrCount(text, sub) ==
    IF sub = <<>> THEN Len(text) + 1 ELSE CountFrom(text, sub, 1)

\* Optional[str]
None == [present |-> FALSE, val |-> <<>>]
Some(s) == [present |-> TRUE, val |-> s]

\* truth value of an Optional[str]: None and "" are both falsy
Truthy(o) == o.present /\ o.val # <<>>

----------------------------------------------------------------------------
(* Civil dates, strptime / strftime with "%Y-%m-%d"                        *)

NoDate == [y |-> 0, m |-> 0, d |-> 0]

IsLeap(y) == (y % 4 = 0 /\ y % 100 # 0) \/ y % 400 = 0

DaysInMonth(y, m) ==
    IF m = 2 THEN (IF IsLeap(y) THEN 29 ELSE 28)
    ELSE IF m \in {4, 6, 9, 11} THEN 30 ELSE 31

\* datetime comparison of two parsed dates
DateLE(a, b) ==
    \/ a.y < b.y
    \/ a.y = b.y /\ a.m < b.m
    \/ a.y = b.y /\ a.m = b.m /\ a.d <= b.d

PrevDay(t) ==
    IF t.d > 1 THEN [t EXCEPT !.d = t.d - 1]
    ELSE IF t.m > 1 THEN [y |-> t.y, m |-> t.m - 1, d |-> DaysInMonth(t.y, t.m - 1)]
    ELSE [y |-> t.y - 1, m |-> 12, d |-> 31]

\* t - timedelta(days=n)
RECURSIVE MinusDays(_, _)
MinusDays(t, n) == IF n = 0 THEN t ELSE MinusDays(PrevDay(t), n - 1)

TwoDigits(n) == <<Digits[(n \div 10) + 1], Digits[(n % 10) + 1]>>

\* t.strftime("%Y-%m-%d")
Strftime(t) ==
    TwoDigits(t.y \div 100) \o TwoDigits(t.y % 100) \o <<"-">>
        \o TwoDigits(t.m) \o <<"-">> \o TwoDigits(t.d)

\* The directive %m is the pattern 1[0-2]|0[1-9]|[1-9]; the result is the
\* value and the number of characters consumed, or 0 characters on failure.
ParseMonth(s, i) ==
    LET c1 == IF i <= Len(s) THEN s[i] ELSE "$"
        c2 == IF i + 1 <= Len(s) THEN s[i + 1] ELSE "$"
    IN  IF c1 = "1" /\ c2 \in {"0", "1", "2"}
            THEN [val |-> 10 + DigitVal(c2), n |-> 2]
        ELSE IF c1 = "0" /\ IsDigit(c2) /\ c2 # "0"
            THEN [val |-> DigitVal(c2), n |-> 2]
        ELSE IF IsDigit(c1) /\ c1 # "0"
            THEN [val |-> DigitVal(c1), n |-> 1]
        ELSE [val |-> 0, n |-> 0]

\* The directive %d is the pattern 3[0-1]|[1-2]\d|0[1-9]|[1-9]| [1-9].
ParseDay(s, i) ==
    LET c1 == IF i <= Len(s) THEN s[i] ELSE "$"
        c2 == IF i + 1 <= Len(s) THEN s[i + 1] ELSE "$"
    IN  IF c1 = "3" /\ c2 \in {"0", "1"}
            THEN [val |-> 30 + DigitVal(c2), n |-> 2]
        ELSE IF c1 \in {"1", "2"} /\ IsDigit(c2)
            THEN [val |-> 10 * DigitVal(c1) + DigitVal(c2), n |-> 2]
        ELSE IF c1 = "0" /\ IsDigit(c2) /\ c2 # "0"
            THEN [val |-> DigitVal(c2), n |-> 2]
        ELSE IF IsDigit(c1) /\ c1 # "0"
            THEN [val |-> DigitVal(c1), n |-> 1]
        ELSE IF c1 = " " /\ IsDigit(c2) /\ c2 # "0"
            THEN [val |-> DigitVal(c2), n |-> 2]
        ELSE [val |-> 0, n |-> 0]

\* datetime.strptime(s, "%Y-%m-%d"); NoDate stands for ValueError
Strptime(s) ==
    IF ~(Len(s) >= 5 /\ (\A i \in 1..4 : IsDigit(s[i])) /\ s[5] = "-")
    THEN NoDate
    ELSE
      LET y  == 1000 * DigitVal(s[1]) + 100 * DigitVal(s[2])
                    + 10 * DigitVal(s[3]) + DigitVal(s[4])
          mo == ParseMonth(s, 6)
          p  == 6 + mo.n
          da == ParseDay(s, p + 1)
      IN  IF mo.n = 0 \/ p > Len(s) THEN NoDate
          ELSE IF s[p] # "-" \/ da.n = 0 THEN NoDate
          ELSE IF p + da.n # Len(s) THEN NoDate
          ELSE IF y < 1 \/ da.val > DaysInMonth(y, mo.val) THEN NoDate
          ELSE [y |-> y, m |-> mo.val, d |-> da.val]

validate_date_format(date_str) == Strptime(date_str) # NoDate

----------------------------------------------------------------------------
(* parse_keywords                                                          *)

SEPS == {"\n", ","}

\* re.split(r"[\n,]+", raw): the pieces between maximal runs of separators
\* (a leading or trailing run leaves an empty piece, as re.split does).
RECURSIVE SplitFrom(_, _, _)
SplitFrom(raw, i, cur) ==
    IF i > Len(raw) THEN <<cur>>
    ELSE IF raw[i] \in SEPS
         THEN IF i > 1 /\ raw[i - 1] \in SEPS
              THEN SplitFrom(raw, i + 1, cur)
              ELSE <<cur>> \o SplitFrom(raw, i + 1, <<>>)
         ELSE SplitFrom(raw, i + 1, Append(cur, raw[i]))

ReSplit(raw) == SplitFrom(raw, 1, <<>>)

\* StripNonBlank leaving out a term that is already in the list
RECURSIVE StripNonBlankUnique(_)
StripNonBlankUnique(parts) ==
    IF parts = <<>> THEN <<>>
    ELSE LET rest == StripNonBlankUnique(SubSeq(parts, 1, Len(parts) - 1))
             last == Strip(parts[Len(parts)])
         IN  IF last = <<>> \/ (\E i \in 1..Len(rest) : rest[i] = last)
             THEN rest
             ELSE Append(rest, last)

RECURSIVE StripNonBlank(_)
StripNonBlank(parts) ==
    IF parts = <<>> THEN <<>>
    ELSE IF Strip(Head(parts)) # <<>>
         THEN <<Strip(Head(parts))>> \o StripNonBlank(Tail(parts))
         ELSE StripNonBlank(Tail(parts))

parse_keywords(raw) ==
    IF raw = <<>> \/ Strip(raw) = <<>> THEN <<>>
    ELSE StripNonBlank(ReSplit(raw))

----------------------------------------------------------------------------
(* Relevance score and the ranking of get_naver_news                       *)

\* index of the first ">" at or after position i, 0 when there is none
RECURSIVE FindGt(_, _)
FindGt(s, i) ==
    IF i > Len(s) THEN 0 ELSE IF s[i] = ">" THEN i ELSE FindGt(s, i + 1)

\* re.sub(r'<[^>]+>', '', s)
RECURSIVE StripTagsFrom(_, _)
StripTagsFrom(s, i) ==
    IF i > Len(s) THEN <<>>
    ELSE LET j == FindGt(s, i + 1)
         IN  IF s[i] = "<" /\ j >= i + 2
             THEN StripTagsFrom(s, j + 1)
             ELSE <<s[i]>> \o StripTagsFrom(s, i + 1)

StripTags(s) == StripTagsFrom(s, 1)

\* _relevance_score without the weight of the title
_relevance_score_unweighted(keyword, title, description) ==
    LET title_clean == Strip(title)
        desc_clean  == Strip(description)
        kw          == Strip(keyword)
    IN  IF kw = <<>> THEN 0
        ELSE StrCount(title_clean, kw) + StrCount(desc_clean, kw)

_relevance_score(keyword, title, description) ==
    LET title_clean == Strip(title)
        desc_clean  == Strip(description)
        kw          == Strip(keyword)
    IN  IF kw = <<>> THEN 0
        ELSE StrCount(title_clean, kw) * 2 + StrCount(desc_clean, kw)

NextDay(t) ==
    IF t.d < DaysInMonth(t.y, t.m) THEN [t EXCEPT !.d = t.d + 1]
    ELSE IF t.m < 12 THEN [y |-> t.y, m |-> t.m + 1, d |-> 1]
    ELSE [y |-> t.y + 1, m |-> 1, d |-> 1]

\* The upstream pubDate is kept as what strptime makes of it: absent (""),
\* unparsable ("bad"), or a date and an hour ("ok").  The parsed time is
\* taken as UTC and moved to UTC+9 before formatting; otherwise today.
\* FormatPubDate giving an empty date for a date it cannot read
FormatPubDateOrEmpty(pub, today) ==
    IF pub.kind = "ok"
    THEN Strftime(IF pub.hour + 9 >= 24 THEN NextDay(pub.date) ELSE pub.date)
    ELSE <<>>

FormatPubDate(pub, today) ==
    IF pub.kind = "ok"
    THEN Strftime(IF pub.hour + 9 >= 24 THEN NextDay(pub.date) ELSE pub.date)
    ELSE Strftime(today)

\* one (score, NewsSearchItem) candidate of get_naver_news
NaverCandidate(keyword, item, use_relevance_filter, today) ==
    LET title       == StripTags(item.title)
        description == StripTags(item.description)
    IN  [score |-> IF use_relevance_filter
                   THEN _relevance_score(keyword, title, description)
                   ELSE 0,
         item  |-> [title |-> title, link |-> item.link,
                    pubDate |-> FormatPubDate(item.pubDate, today),
                    keyword |-> None]]

NaverCandidates(keyword, data, use_relevance_filter, today) ==
    [i \in 1..Len(data) |->
        NaverCandidate(keyword, data[i], use_relevance_filter, today)]

\* InsertByScore placing an element before the placed elements of its score
RECURSIVE InsertBeforeEqualScore(_, _)
InsertBeforeEqualScore(sorted, c) ==
    IF sorted = <<>> THEN <<c>>
    ELSE IF Head(sorted).score > c.score
         THEN <<Head(sorted)>> \o InsertBeforeEqualScore(Tail(sorted), c)
         ELSE <<c>> \o sorted

\* list.sort(key=lambda x: -x[0]) is stable: an element goes after every
\* element already placed whose score is not lower.
RECURSIVE InsertByScore(_, _)
InsertByScore(sorted, c) ==
    IF sorted = <<>> THEN <<c>>
    ELSE IF Head(sorted).score >= c.score
         THEN <<Head(sorted)>> \o InsertByScore(Tail(sorted), c)
         ELSE <<c>> \o sorted

RECURSIVE SortByScoreDesc(_)
SortByScoreDesc(cands) ==
    IF cands = <<>> THEN <<>>
    ELSE InsertByScore(SortByScoreDesc(SubSeq(cands, 1, Len(cands) - 1)),
                       cands[Len(cands)])

\* the part of get_naver_news after response.json()
NaverSelect(keyword, data, max_results, use_relevance_filter, today) ==
    LET candidates == NaverCandidates(keyword, data, use_relevance_filter, today)
        ordered    == IF use_relevance_filter
                      THEN SortByScoreDesc(candidates) ELSE candidates
        top        == Take(ordered, max_results)
    IN  [i \in 1..Len(top) |-> top[i].item]

----------------------------------------------------------------------------
(* Errors, upstream outcomes and the inputs of the request handlers        *)

\* HTTPException(status_code, detail); the detail is kept as a tag naming
\* the message, upstream is the status code the message quotes (0: none).
HTTPException(status, detail, upstream) ==
    [kind |-> "error", status_code |-> status, detail |-> detail,
     upstream_status |-> upstream]

NoOutcome == [kind |-> "none"]

MaxItems == 2

\* the titles of an upstream answer, by position
NewsTitles == <<(<<"B">>), (<<"A">>)>>

NoPubDate == [kind |-> "absent"]

\* sequences of at most n elements of S
SeqsUpTo(S, n) == UNION {[1..k -> S] : k \in 0..n}

\* the "items" array of a commercial-news or RSS answer of n items: the
\* link of an item is its position in the answer
UpstreamNews(n) ==
    [i \in 1..n |->
        [title |-> NewsTitles[((i - 1) % Len(NewsTitles)) + 1],
         description |-> <<>>, link |-> i, pubDate |-> NoPubDate]]

HttpErrorStatuses == {400, 401, 403, 429, 503}

\* what requests.get / requests.post, raise_for_status and the decoding of
\* the body can raise
Failures ==
    {[ok |-> FALSE, exc |-> "Timeout", status |-> 0],
     [ok |-> FALSE, exc |-> "RequestException", status |-> 0],
     [ok |-> FALSE, exc |-> "Exception", status |-> 0]}
    \cup {[ok |-> FALSE, exc |-> "HTTPError", status |-> st] :
            st \in HttpErrorStatuses}

NewsAnswers ==
    {[ok |-> TRUE, data |-> UpstreamNews(n)] : n \in 0..MaxItems}

PageSize == 10

PageStarts == <<1, 11, 21>>

PageLens == {0, 7, PageSize}

\* a page of n results of the web search, starting at start_index
UpstreamPage(start_index, n) ==
    [i \in 1..n |->
        [title |-> <<"T">>, link |-> start_index + i - 1, snippet |-> <<>>]]

Configs ==
    LET k == Some(<<"k">>)
        full == [NAVER_CLIENT_ID |-> k, NAVER_CLIENT_SECRET |-> k,
                 GOOGLE_CSE_ID |-> k, GOOGLE_API_KEY |-> k,
                 SLACK_WEBHOOK_URL |-> Some(<<"h">>)]
    IN  {full,
         [full EXCEPT !.SLACK_WEBHOOK_URL = None],
         [full EXCEPT !.SLACK_WEBHOOK_URL = Some(<<>>)],
         [full EXCEPT !.NAVER_CLIENT_SECRET = None],
         [full EXCEPT !.NAVER_CLIENT_ID = Some(<<>>)],
         [full EXCEPT !.GOOGLE_API_KEY = None],
         [full EXCEPT !.GOOGLE_CSE_ID = Some(<<>>)]}

Clock == {[y |-> 2025, m |-> 6, d |-> 10], [y |-> 2025, m |-> 1, d |-> 3]}

KeywordInputs ==
    {<<"A">>,
     <<"A", ",", "B">>,
     <<"A", ",", " ", "A">>,
     <<"B", "\n", ",", "A", " ">>,
     <<" ", ",", "\n">>}

StartInputs ==
    {None, Some(<<>>),
     Some(Strftime([y |-> 2025, m |-> 6, d |-> 3])),
     Some(Strftime([y |-> 2025, m |-> 6, d |-> 20])),
     Some(<<"2", "0", "2", "5", "-", "6", "-", "3">>),
     Some(<<"2", "0", "2", "5", "/", "0", "6", "/", "0", "3">>)}

EndInputs ==
    {None,
     Some(Strftime([y |-> 2025, m |-> 6, d |-> 10])),
     Some(Strftime([y |-> 2025, m |-> 5, d |-> 1])),
     Some(<<"2", "0", "2", "5", "0", "6", "1", "0">>)}

\* NewsSearchRequest
NewsRequests ==
    [endpoint : {"news"}, keyword : KeywordInputs,
     start_date : StartInputs, end_date : EndInputs,
     sort_by : {"sim"}, use_relevance_filter : BOOLEAN,
     provider : {"naver", "google"}]

\* ResearchSearchRequest (max_results is constrained to 1..30)
ResearchRequests ==
    [endpoint : {"research"}, keyword : KeywordInputs,
     language : {None}, max_results : {1, 25, 30},
     start_date : StartInputs, end_date : EndInputs,
     date_restrict : {None, Some(<<"w", "1">>)}]

----------------------------------------------------------------------------
(* The handlers                                                            *)

\* validate_api_keys(): TRUE when it returns, FALSE when it raises
validate_api_keys ==
    Truthy(cfg.NAVER_CLIENT_ID) /\ Truthy(cfg.NAVER_CLIENT_SECRET)

NaverKeysMissing == HTTPException(500, "naver_keys_missing", 0)

\* NaverError without the branch for 429
NaverErrorNoRateLimit(f) ==
    IF f.exc = "Timeout" THEN HTTPException(504, "naver_timeout", 0)
    ELSE IF f.exc = "HTTPError"
         THEN IF f.status = 401 THEN HTTPException(401, "naver_auth", 0)
              ELSE HTTPException(500, "naver_http_error", f.status)
    ELSE IF f.exc = "RequestException"
         THEN HTTPException(500, "naver_request_error", 0)
    ELSE HTTPException(500, "naver_unexpected", 0)

\* the except clauses of get_naver_news
NaverError(f) ==
    IF f.exc = "Timeout" THEN HTTPException(504, "naver_timeout", 0)
    ELSE IF f.exc = "HTTPError"
         THEN IF f.status = 401 THEN HTTPException(401, "naver_auth", 0)
              ELSE IF f.status = 429 THEN HTTPException(429, "naver_rate_limit", 0)
              ELSE HTTPException(500, "naver_http_error", f.status)
    ELSE IF f.exc = "RequestException"
         THEN HTTPException(500, "naver_request_error", 0)
    ELSE HTTPException(500, "naver_unexpected", 0)

\* GoogleNewsError handing the upstream status code through
GoogleNewsErrorPassThrough(f) ==
    IF f.exc = "Timeout" THEN HTTPException(504, "rss_timeout", 0)
    ELSE IF f.exc = "HTTPError"
         THEN HTTPException(f.status, "rss_http_error", f.status)
    ELSE HTTPException(500, "rss_error", 0)

\* the except clauses of get_google_news
GoogleNewsError(f) ==
    IF f.exc = "Timeout" THEN HTTPException(504, "rss_timeout", 0)
    ELSE IF f.exc = "HTTPError"
         THEN HTTPException(500, "rss_http_error", f.status)
    ELSE HTTPException(500, "rss_error", 0)

\* ResearchError without the branch for 403
ResearchErrorNoForbidden(f) ==
    IF f.exc = "Timeout" THEN HTTPException(504, "research_timeout", 0)
    ELSE IF f.exc = "HTTPError"
         THEN HTTPException(500, "research_http_error", f.status)
    ELSE IF f.exc = "RequestException"
         THEN HTTPException(500, "research_request_error", 0)
    ELSE HTTPException(500, "research_unexpected", 0)

\* the except clauses of get_research_results
ResearchError(f) ==
    IF f.exc = "Timeout" THEN HTTPException(504, "research_timeout", 0)
    ELSE IF f.exc = "HTTPError"
         THEN IF f.status = 403
              THEN HTTPException(403, "research_forbidden_billing", 0)
              ELSE HTTPException(500, "research_http_error", f.status)
    ELSE IF f.exc = "RequestException"
         THEN HTTPException(500, "research_request_error", 0)
    ELSE HTTPException(500, "research_unexpected", 0)

\* the items of get_google_news for a feed whose channel has these items
GoogleSelect(data, max_results, today) ==
    LET top == Take(data, max_results)
    IN  [i \in 1..Len(top) |->
            [title |-> StripTags(top[i].title), link |-> top[i].link,
             pubDate |-> FormatPubDate(top[i].pubDate, today),
             keyword |-> None]]

\* search_news: the items of one term, each tagged with the term
TagNews(result, kw) ==
    [i \in 1..Len(result) |->
        [title |-> result[i].title, link |-> result[i].link,
         pubDate |-> result[i].pubDate, keyword |-> Some(kw)]]

\* ", ".join(keywords)
RECURSIVE JoinKeywords(_)
JoinKeywords(kws) ==
    IF kws = <<>> THEN <<>>
    ELSE IF Len(kws) = 1 THEN kws[1]
    ELSE kws[1] \o <<",", " ">> \o JoinKeywords(Tail(kws))

Period(w) == w.start_date \o <<" ", "~", " ">> \o w.end_date

\* Raise that records the error and lets the loop go on
RaiseAndContinue(e) ==
    /\ outcome' = e
    /\ pc' = pc

\* an exception leaves the handler: the request ends with it
Raise(e) ==
    /\ outcome' = e
    /\ pc' = "done"

\* search_news up to the aggregation loop: date defaults, date validation,
\* keyword parsing
search_news_validate ==
    /\ pc = "start"
    /\ req.endpoint = "news"
    /\ LET korea_now  == now
           end_date   == IF ~Truthy(req.end_date)
                         THEN Strftime(korea_now) ELSE req.end_date.val
           start_date == IF ~Truthy(req.start_date)
                         THEN Strftime(MinusDays(korea_now, 7))
                         ELSE req.start_date.val
           kws        == parse_keywords(req.keyword)
       IN  IF ~validate_date_format(start_date)
           THEN /\ Raise(HTTPException(400, "start_date_format", 0))
                /\ UNCHANGED <<keywords, window, kwIdx>>
           ELSE IF ~validate_date_format(end_date)
           THEN /\ Raise(HTTPException(400, "end_date_format", 0))
                /\ UNCHANGED <<keywords, window, kwIdx>>
           ELSE IF ~DateLE(Strptime(start_date), Strptime(end_date))
           THEN /\ Raise(HTTPException(400, "start_after_end", 0))
                /\ UNCHANGED <<keywords, window, kwIdx>>
           ELSE IF kws = <<>>
           THEN /\ Raise(HTTPException(400, "keyword_missing", 0))
                /\ window' = [start_date |-> start_date, end_date |-> end_date]
                /\ UNCHANGED <<keywords, kwIdx>>
           ELSE /\ pc' = "news_loop"
                /\ keywords' = kws
                /\ window' = [start_date |-> start_date, end_date |-> end_date]
                /\ kwIdx' = 1
                /\ UNCHANGED outcome
    /\ UNCHANGED <<cfg, now, req, pageIdx, collected, items, calls, fin, fout>>

\* NewsLoopAppend putting the items of the term in front of the merged list
NewsLoopPrepend(kw, result) ==
    /\ items' = TagNews(result, kw) \o items
    /\ IF kwIdx = Len(keywords)
       THEN pc' = "notify" /\ UNCHANGED kwIdx
       ELSE pc' = "news_loop" /\ kwIdx' = kwIdx + 1
    /\ UNCHANGED outcome

\* search_news: the body of "for kw in keywords" after the provider returned
NewsLoopAppend(kw, result) ==
    /\ items' = items \o TagNews(result, kw)
    /\ IF kwIdx = Len(keywords)
       THEN pc' = "notify" /\ UNCHANGED kwIdx
       ELSE pc' = "news_loop" /\ kwIdx' = kwIdx + 1
    /\ UNCHANGED outcome

\* one iteration of the loop of search_news with provider "naver"
get_naver_news ==
    /\ pc = "news_loop"
    /\ req.provider = "naver"
    /\ LET kw == keywords[kwIdx]
           use_relevance_filter == req.use_relevance_filter
           request_display == IF use_relevance_filter
                              THEN Min(30, 100) ELSE Min(10, 100)
       IN  IF ~validate_api_keys
           THEN Raise(NaverKeysMissing) /\ UNCHANGED <<items, kwIdx, calls>>
           ELSE IF ~validate_date_format(window.start_date)
           THEN /\ Raise(HTTPException(400, "start_date_format", 0))
                /\ UNCHANGED <<items, kwIdx, calls>>
           ELSE IF ~validate_date_format(window.end_date)
           THEN /\ Raise(HTTPException(400, "end_date_format", 0))
                /\ UNCHANGED <<items, kwIdx, calls>>
           ELSE \E answer \in NewsAnswers \cup Failures :
                /\ calls' = Append(calls,
                       [method |-> "GET", api |-> "naver", query |-> kw,
                        display |-> request_display, start |-> 1,
                        answer |-> answer])
                /\ IF answer.ok
                   THEN NewsLoopAppend(kw,
                            NaverSelect(kw, answer.data, 10,
                                        use_relevance_filter, now))
                   ELSE Raise(NaverError(answer)) /\ UNCHANGED <<items, kwIdx>>
    /\ UNCHANGED <<cfg, now, req, keywords, window, pageIdx, collected, fin, fout>>

\* what get_google_news gets for a feed request that raise_for_status lets
\* through: a document with a channel and its items, a well-formed document
\* without a channel element, or a body ET.fromstring raises ParseError on
RssAnswers ==
    {[ok |-> TRUE, channel |-> TRUE, data |-> UpstreamNews(n)] : n \in 0..MaxItems}
    \cup {[ok |-> TRUE, channel |-> FALSE, data |-> <<>>]}
    \cup {[ok |-> FALSE, exc |-> "ParseError", status |-> 200]}

\* one iteration of the loop of search_news with provider "google"
get_google_news ==
    /\ pc = "news_loop"
    /\ req.provider = "google"
    /\ LET kw == keywords[kwIdx]
       IN  IF Strip(kw) = <<>>
           THEN /\ Raise(HTTPException(400, "keyword_empty", 0))
                /\ UNCHANGED <<items, kwIdx, calls>>
           ELSE \E answer \in RssAnswers \cup Failures :
                /\ calls' = Append(calls,
                       [method |-> "GET", api |-> "rss", query |-> kw,
                        display |-> 0, start |-> 1, answer |-> answer])
                /\ IF answer.ok
                   THEN NewsLoopAppend(kw,
                            IF answer.channel
                            THEN GoogleSelect(answer.data, 30, now)
                            ELSE <<>>)
                   ELSE Raise(GoogleNewsError(answer)) /\ UNCHANGED <<items, kwIdx>>
    /\ UNCHANGED <<cfg, now, req, keywords, window, pageIdx, collected, fin, fout>>

PostOutcomes ==
    {[ok |-> TRUE, exc |-> "none", status |-> 200]} \cup Failures

\* NewsSearchResponse built at the end of search_news
NewsSearchResponse(slack_sent) ==
    [kind |-> "response",
     keyword |-> JoinKeywords(keywords),
     keywords |-> keywords,
     period |-> Period(window),
     news_count |-> Len(items),
     news |-> items,
     slack_sent |-> slack_sent,
     message |-> IF slack_sent THEN "sent" ELSE "slack_failed"]

\* WebhookConfigured testing "is not None" only
WebhookConfiguredNotNone == cfg.SLACK_WEBHOOK_URL.present

\* send_slack_notification: "if not webhook_url" does not hold
WebhookConfigured == Truthy(cfg.SLACK_WEBHOOK_URL)

\* SlackSent without raise_for_status
SlackSentWithoutStatusCheck(answer) == answer.exc \in {"none", "HTTPError"}

\* send_slack_notification: the value of the try block around
\* requests.post and raise_for_status, every exception giving False
SlackSent(answer) == answer.exc = "none"

\* send_slack_notification and the rest of search_news
send_slack_notification ==
    /\ pc = "notify"
    /\ IF ~WebhookConfigured
       THEN /\ outcome' = NewsSearchResponse(FALSE)
            /\ UNCHANGED calls
       ELSE \E answer \in PostOutcomes :
            /\ calls' = Append(calls,
                   [method |-> "POST", api |-> "slack",
                    query |-> JoinKeywords(keywords),
                    display |-> Len(items), start |-> 0, answer |-> answer])
            /\ outcome' = NewsSearchResponse(SlackSent(answer))
    /\ pc' = "done"
    /\ UNCHANGED <<cfg, now, req, keywords, window, kwIdx, pageIdx, collected,
                   items, fin, fout>>

\* s.replace('-', '')
RECURSIVE RemoveDashes(_)
RemoveDashes(s) ==
    IF s = <<>> THEN <<>>
    ELSE IF Head(s) = "-" THEN RemoveDashes(Tail(s))
    ELSE <<Head(s)>> \o RemoveDashes(Tail(s))

\* ResearchDateParams with "if date_restrict" in place of "elif date_restrict"
ResearchDateParamsBoth(start_date, end_date, date_restrict) ==
    [sort |-> IF /\ Truthy(start_date) /\ Truthy(end_date)
                 /\ validate_date_format(start_date.val)
                 /\ validate_date_format(end_date.val)
                 /\ DateLE(Strptime(start_date.val), Strptime(end_date.val))
              THEN Some(<<"d", "a", "t", "e", ":", "r", ":">>
                        \o RemoveDashes(start_date.val) \o <<":">>
                        \o RemoveDashes(end_date.val))
              ELSE None,
     dateRestrict |-> IF Truthy(date_restrict) THEN date_restrict ELSE None]

\* the date parameters _fetch_research_page puts in the query
ResearchDateParams(start_date, end_date, date_restrict) ==
    IF /\ Truthy(start_date) /\ Truthy(end_date)
       /\ validate_date_format(start_date.val)
       /\ validate_date_format(end_date.val)
    THEN IF DateLE(Strptime(start_date.val), Strptime(end_date.val))
         THEN [sort |-> Some(<<"d", "a", "t", "e", ":", "r", ":">>
                              \o RemoveDashes(start_date.val) \o <<":">>
                              \o RemoveDashes(end_date.val)),
               dateRestrict |-> None]
         ELSE [sort |-> None, dateRestrict |-> None]
    ELSE IF Truthy(date_restrict)
         THEN [sort |-> None, dateRestrict |-> date_restrict]
         ELSE [sort |-> None, dateRestrict |-> None]

\* the ResearchSearchItem list _fetch_research_page makes of a page
ResearchItems(keyword, page) ==
    [i \in 1..Len(page) |->
        [title |-> page[i].title, link |-> page[i].link,
         snippet |-> page[i].snippet, matched_keyword |-> keyword]]

\* ResearchSearchResponse built at the end of search_research
ResearchSearchResponse(research_items) ==
    [kind |-> "response",
     keyword |-> JoinKeywords(keywords),
     keywords |-> keywords,
     total_results |-> Len(research_items),
     items |-> research_items,
     message |-> IF research_items # <<>> THEN "found" ELSE "no_results"]

\* search_research up to the first page request: keyword parsing and the
\* checks at the head of get_research_results
search_research_validate ==
    /\ pc = "start"
    /\ req.endpoint = "research"
    /\ LET kws        == parse_keywords(req.keyword)
           start_date == req.start_date
           end_date   == req.end_date
       IN  IF kws = <<>>
           THEN /\ Raise(HTTPException(400, "keyword_missing", 0))
                /\ UNCHANGED <<keywords, kwIdx, pageIdx>>
           ELSE IF ~Truthy(cfg.GOOGLE_CSE_ID) \/ ~Truthy(cfg.GOOGLE_API_KEY)
           THEN /\ Raise(HTTPException(500, "google_keys_missing", 0))
                /\ keywords' = kws
                /\ UNCHANGED <<kwIdx, pageIdx>>
           ELSE IF /\ Truthy(start_date) /\ Truthy(end_date)
                   /\ (~validate_date_format(start_date.val)
                        \/ ~validate_date_format(end_date.val))
           THEN /\ Raise(HTTPException(400, "date_format", 0))
                /\ keywords' = kws
                /\ UNCHANGED <<kwIdx, pageIdx>>
           ELSE IF /\ Truthy(start_date) /\ Truthy(end_date)
                   /\ ~DateLE(Strptime(start_date.val), Strptime(end_date.val))
           THEN /\ Raise(HTTPException(400, "start_after_end", 0))
                /\ keywords' = kws
                /\ UNCHANGED <<kwIdx, pageIdx>>
           ELSE /\ pc' = "research_loop"
                /\ keywords' = kws
                /\ kwIdx' = 1
                /\ pageIdx' = 1
                /\ UNCHANGED outcome
    /\ UNCHANGED <<cfg, now, req, window, collected, items, calls, fin, fout>>

\* MorePages without the break on a short page
MorePagesIgnoringShortPage(page, got, max_results_per_keyword) ==
    /\ pageIdx < Len(PageStarts)
    /\ ~(Len(got) >= max_results_per_keyword)

\* whether "for start_index in (1, 11, 21)" goes on to another request
\* after a page: the page was full, a start index is left, and the check at
\* the top of the next iteration does not break
MorePages(page, got, max_results_per_keyword) ==
    /\ ~(Len(page) < PageSize)
    /\ pageIdx < Len(PageStarts)
    /\ ~(Len(got) >= max_results_per_keyword)

\* get_research_results: one page request of the current term, then the
\* loop control up to the next request or the return
fetch_research_page ==
    /\ pc = "research_loop"
    /\ LET kw == keywords[kwIdx]
           start_index == PageStarts[pageIdx]
           max_results_per_keyword == req.max_results
           dates == ResearchDateParams(req.start_date, req.end_date,
                                       req.date_restrict)
       IN  \E answer \in {[ok |-> TRUE, data |-> UpstreamPage(start_index, n)] :
                             n \in PageLens} \cup Failures :
            /\ calls' = Append(calls,
                   [method |-> "GET", api |-> "cse", query |-> kw,
                    display |-> PageSize, start |-> start_index,
                    sort |-> dates.sort, dateRestrict |-> dates.dateRestrict,
                    answer |-> answer])
            /\ IF ~answer.ok
               THEN /\ Raise(ResearchError(answer))
                    /\ UNCHANGED <<kwIdx, pageIdx, collected, items>>
               ELSE LET page == ResearchItems(kw, answer.data)
                        got  == collected \o page
                    IN  IF MorePages(page, got, max_results_per_keyword)
                        THEN /\ collected' = got
                             /\ pageIdx' = pageIdx + 1
                             /\ UNCHANGED <<kwIdx, items, pc, outcome>>
                        ELSE LET research_items ==
                                    items \o Take(got, max_results_per_keyword)
                             IN  /\ items' = research_items
                                 /\ collected' = <<>>
                                 /\ pageIdx' = 1
                                 /\ IF kwIdx = Len(keywords)
                                    THEN /\ outcome' =
                                              ResearchSearchResponse(research_items)
                                         /\ pc' = "done"
                                         /\ UNCHANGED kwIdx
                                    ELSE /\ kwIdx' = kwIdx + 1
                                         /\ UNCHANGED <<pc, outcome>>
    /\ UNCHANGED <<cfg, now, req, keywords, window, fin, fout>>

----------------------------------------------------------------------------
(* The request pipeline: one request, served to its end                    *)

NoWindow == [start_date |-> <<>>, end_date |-> <<>>]

Init ==
    /\ cfg \in Configs
    /\ now \in Clock
    /\ req \in NewsRequests \cup ResearchRequests
    /\ pc = "start"
    /\ keywords = <<>>
    /\ window = NoWindow
    /\ kwIdx = 0
    /\ pageIdx = 0
    /\ collected = <<>>
    /\ items = <<>>
    /\ calls = <<>>
    /\ outcome = NoOutcome
    /\ fin = <<>>
    /\ fout = <<>>

Next ==
    \/ search_news_validate
    \/ get_naver_news
    \/ get_google_news
    \/ send_slack_notification
    \/ search_research_validate
    \/ fetch_research_page

Spec == Init /\ [][Next]_vars

----------------------------------------------------------------------------
(* _relevance_score as a function of its arguments                         *)

MaxKwLen == 2

MaxStrLen == 3

ScoreAlphabet == {"A", "a", " "}

\* "AI", "AI policy AI", "new AI rules"
ExampleScoreArgs ==
    [keyword |-> <<"A", "I">>,
     title |-> <<"A", "I", " ", "p", "o", "l", "i", "c", "y", " ", "A", "I">>,
     description |-> <<"n", "e", "w", " ", "A", "I", " ", "r", "u", "l", "e", "s">>]

ScoreArgs ==
    [keyword : SeqsUpTo(ScoreAlphabet, MaxKwLen),
     title : SeqsUpTo(ScoreAlphabet, MaxStrLen),
     description : SeqsUpTo(ScoreAlphabet, MaxStrLen)]
    \cup {ExampleScoreArgs}

\* the variables of the request pipeline, at rest
PipelineIdle ==
    /\ cfg = CHOOSE c \in Configs : \A k \in DOMAIN c : Truthy(c[k])
    /\ now = CHOOSE t \in Clock : t.m = 6
    /\ req = [endpoint |-> "none"]
    /\ keywords = <<>>
    /\ window = NoWindow
    /\ kwIdx = 0
    /\ pageIdx = 0
    /\ collected = <<>>
    /\ items = <<>>
    /\ calls = <<>>
    /\ outcome = NoOutcome

pipelineVars ==
    <<cfg, now, req, keywords, window, kwIdx, pageIdx, collected, items,
      calls, outcome>>

InitScore ==
    /\ PipelineIdle
    /\ pc = "call"
    /\ fin \in ScoreArgs
    /\ fout = -1

relevance_score_call ==
    /\ pc = "call"
    /\ fout' = _relevance_score(fin.keyword, fin.title, fin.description)
    /\ pc' = "returned"
    /\ UNCHANGED <<fin, pipelineVars>>

NextScore == relevance_score_call

SpecScore == InitScore /\ [][NextScore]_vars

----------------------------------------------------------------------------
(* The ranking of get_naver_news as a function of the upstream answer      *)

MaxCands == 4

MaxResults == 3

RankTitles == {<<"A">>, <<"B">>, <<"<", "A", ">", "B">>}

RankDescriptions == {<<>>, <<"A">>}

\* an upstream answer: the link of an item is its position
RankData(pairs) ==
    [i \in 1..Len(pairs) |->
        [title |-> pairs[i][1], description |-> pairs[i][2], link |-> i,
         pubDate |-> NoPubDate]]

RankArgs ==
    [keyword : {<<"A">>},
     data : {RankData(p) : p \in SeqsUpTo(RankTitles \X RankDescriptions, MaxCands)},
     max_results : 1..MaxResults,
     use_relevance_filter : BOOLEAN]

InitRank ==
    /\ PipelineIdle
    /\ pc = "call"
    /\ fin \in RankArgs
    /\ fout = <<>>

naver_select_call ==
    /\ pc = "call"
    /\ fout' = NaverSelect(fin.keyword, fin.data, fin.max_results,
                           fin.use_relevance_filter, now)
    /\ pc' = "returned"
    /\ UNCHANGED <<fin, pipelineVars>>

NextRank == naver_select_call

SpecRank == InitRank /\ [][NextRank]_vars

----------------------------------------------------------------------------
(* parse_keywords as a function of the raw string, and the check both      *)
(* endpoints make on its result                                            *)

MaxRawLen == 4

RawAlphabet == {"A", "B", ",", " ", "\n"}

RawInputs == SeqsUpTo(RawAlphabet, MaxRawLen)

InitParse ==
    /\ PipelineIdle
    /\ pc = "call"
    /\ fin \in RawInputs
    /\ fout = <<>>

parse_keywords_call ==
    /\ pc = "call"
    /\ fout' = parse_keywords(fin)
    /\ pc' = "returned"
    /\ UNCHANGED <<fin, pipelineVars>>

\* search_news and search_research: "if not keywords: raise HTTPException(400)"
reject_empty_keywords ==
    /\ pc = "returned"
    /\ outcome' = IF fout = <<>>
                  THEN HTTPException(400, "keyword_missing", 0)
                  ELSE NoOutcome
    /\ pc' = "checked"
    /\ UNCHANGED <<cfg, now, req, keywords, window, kwIdx, pageIdx, collected,
                   items, calls, fin, fout>>

NextParse ==
    \/ parse_keywords_call
    \/ reject_empty_keywords

SpecParse == InitParse /\ [][NextParse]_vars

----------------------------------------------------------------------------
(* The item loops of get_naver_news and get_google_news as functions of    *)
(* the upstream records and their dates                                    *)

MaxFeed == 3

\* the pubDate of an upstream record: missing or empty, text that strptime
\* rejects, or a UTC date and hour (hour 20 is the next day in UTC+9)
PubDates ==
    {[kind |-> "absent"], [kind |-> "bad"]}
    \cup {[kind |-> "ok", date |-> [y |-> 2025, m |-> 5, d |-> 31], hour |-> h] :
             h \in {10, 20}}

\* an upstream answer with the given dates: the link of a record is its
\* position
DateData(dates) ==
    [i \in 1..Len(dates) |->
        [title |-> NewsTitles[((i - 1) % Len(NewsTitles)) + 1],
         description |-> <<>>, link |-> i, pubDate |-> dates[i]]]

DateArgs ==
    [provider : {"naver", "google"},
     keyword : {<<"A">>},
     data : {DateData(d) : d \in SeqsUpTo(PubDates, MaxFeed)},
     max_results : {2, 10},
     use_relevance_filter : BOOLEAN]

InitDate ==
    /\ PipelineIdle
    /\ pc = "call"
    /\ fin \in DateArgs
    /\ fout = <<>>

news_items_call ==
    /\ pc = "call"
    /\ fout' = IF fin.provider = "naver"
               THEN NaverSelect(fin.keyword, fin.data, fin.max_results,
                                fin.use_relevance_filter, now)
               ELSE GoogleSelect(fin.data, fin.max_results, now)
    /\ pc' = "returned"
    /\ UNCHANGED <<fin, pipelineVars>>

NextDate == news_items_call

SpecDate == InitDate /\ [][NextDate]_vars

----------------------------------------------------------------------------
(* Reading the log of upstream calls                                       *)

IsGet(c) == c.method = "GET"

IsPost(c) == c.method = "POST"

GetCalls == SelectSeq(calls, IsGet)

PostCalls == SelectSeq(calls, IsPost)

\* number of items of the answer to call i (0 for a failed call)
PageLen(i) == IF calls[i].answer.ok THEN Len(calls[i].answer.data) ELSE 0

\* web search: items received for the term of call i, up to and with call i
RECURSIVE GotUpTo(_)
GotUpTo(i) ==
    IF i = 1 \/ calls[i].start = 1 THEN PageLen(i)
    ELSE PageLen(i) + GotUpTo(i - 1)

\* web search: call i is the last request of its term
LastOfTerm(i) == i = Len(calls) \/ calls[i + 1].start = 1

\* web search: the position in the term list of the term of call i
TermOf(i) == Cardinality({j \in 1..i : calls[j].start = 1})

\* web search: items the terms of calls 1..i contribute when each term
\* gives min(max_results, items of its pages)
RECURSIVE Contributed(_)
Contributed(i) ==
    IF i = 0 THEN 0
    ELSE Contributed(i - 1)
         + (IF LastOfTerm(i) THEN Min(req.max_results, GotUpTo(i)) ELSE 0)

----------------------------------------------------------------------------
(* C1: web-search pagination                                               *)

\* C1: the page requests of a term start at 1, 11, 21 in this order; after a
\* page of fewer than 10 items, or once max_results items are collected, no
\* further page of the term is requested (the next request, if any, is the
\* first page of the next term); otherwise the next page is requested; and
\* the response holds, per term, min(max_results, items of its pages) items.
C1_Pagination ==
    req.endpoint = "research" =>
        /\ \A i \in 1..Len(calls) : calls[i].start \in {1, 11, 21}
        /\ calls # <<>> => calls[1].start = 1
        /\ \A i \in 1..(Len(calls) - 1) :
              LET stop == PageLen(i) < 10 \/ GotUpTo(i) >= req.max_results
              IN  /\ (stop \/ calls[i].start = 21) => calls[i + 1].start = 1
                  /\ (~stop /\ calls[i].start < 21) =>
                         calls[i + 1].start = calls[i].start + 10
        /\ outcome.kind = "response" =>
              /\ Cardinality({i \in 1..Len(calls) : calls[i].start = 1})
                    = Len(keywords)
              /\ LET last == Len(calls)
                 IN  \/ PageLen(last) < 10
                     \/ GotUpTo(last) >= req.max_results
                     \/ calls[last].start = 21
              /\ outcome.total_results = Contributed(Len(calls))
              /\ Len(outcome.items) = outcome.total_results

\* pages of 10, 10 and 7 items with max_results 30: 27 items, 3 requests
C1_Witness ==
    /\ req.endpoint = "research"
    /\ outcome.kind = "response"
    /\ req.max_results = 30
    /\ Len(keywords) = 1
    /\ Len(calls) = 3
    /\ PageLen(1) = 10 /\ PageLen(2) = 10 /\ PageLen(3) = 7
    /\ outcome.total_results = 27

----------------------------------------------------------------------------
(* C2: aggregation order and tagging                                       *)

\* what the provider client returned for the term of GET call i
ProviderResult(i) ==
    IF calls[i].api = "naver"
    THEN NaverSelect(calls[i].query, calls[i].answer.data, 10,
                     req.use_relevance_filter, now)
    ELSE GoogleSelect(calls[i].answer.data, 30, now)

RECURSIVE NewsOffset(_)
NewsOffset(i) ==
    IF i = 1 THEN 0 ELSE NewsOffset(i - 1) + Len(ProviderResult(i - 1))

\* web search: items of the page of call i that fit under max_results
KeptOfPage(i) ==
    LET before == GotUpTo(i) - PageLen(i)
        room   == req.max_results - before
    IN  IF room <= 0 THEN 0 ELSE Min(PageLen(i), room)

RECURSIVE ResearchOffset(_)
ResearchOffset(i) ==
    IF i = 1 THEN 0 ELSE ResearchOffset(i - 1) + KeptOfPage(i - 1)

\* C2: the merged list of a response is the per-term result lists one after
\* the other in term order, each in its own order, every item tagged with
\* its term, nothing dropped across terms; keywords is the parsed term list.
C2_AggregationOrder ==
    outcome.kind = "response" =>
        /\ outcome.keywords = parse_keywords(req.keyword)
        /\ req.endpoint = "news" =>
              LET n == Len(GetCalls)
              IN  /\ n = Len(outcome.keywords)
                  /\ \A i \in 1..n : calls[i].query = outcome.keywords[i]
                  /\ Len(outcome.news) = NewsOffset(n + 1)
                  /\ \A i \in 1..n : \A j \in 1..Len(ProviderResult(i)) :
                        LET got  == outcome.news[NewsOffset(i) + j]
                            sent == ProviderResult(i)[j]
                        IN  /\ got.title = sent.title
                            /\ got.link = sent.link
                            /\ got.pubDate = sent.pubDate
                            /\ got.keyword = Some(outcome.keywords[i])
        /\ req.endpoint = "research" =>
              LET n == Len(calls)
              IN  /\ Len(outcome.items) = ResearchOffset(n + 1)
                  /\ \A i \in 1..n : \A j \in 1..KeptOfPage(i) :
                        LET got  == outcome.items[ResearchOffset(i) + j]
                            sent == calls[i].answer.data[j]
                        IN  /\ got.title = sent.title
                            /\ got.link = sent.link
                            /\ got.snippet = sent.snippet
                            /\ got.matched_keyword = outcome.keywords[TermOf(i)]

\* two terms, the same link under both, each instance with its own tag
C2_Witness ==
    /\ req.endpoint = "news"
    /\ outcome.kind = "response"
    /\ Len(outcome.keywords) = 2
    /\ Len(outcome.news) >= 3
    /\ \E p, q \in 1..Len(outcome.news) :
          /\ p < q
          /\ outcome.news[p].link = outcome.news[q].link
          /\ outcome.news[p].keyword = Some(outcome.keywords[1])
          /\ outcome.news[q].keyword = Some(outcome.keywords[2])
          /\ outcome.keywords[1] # outcome.keywords[2]

----------------------------------------------------------------------------
(* C3: fail-fast aggregation                                               *)

\* the error the provider client of a failed call raises
ProviderError(c) ==
    IF c.api = "naver" THEN NaverError(c.answer)
    ELSE IF c.api = "rss" THEN GoogleNewsError(c.answer)
    ELSE ResearchError(c.answer)

\* C3: a failed provider call is the last upstream call of the request (no
\* later term, no later page, no webhook POST); the request has ended with
\* the error of that call, and so returns none of the items collected before.
C3_FailFast ==
    \A i \in 1..Len(calls) :
        (IsGet(calls[i]) /\ ~calls[i].answer.ok) =>
            /\ i = Len(calls)
            /\ pc = "done"
            /\ outcome.kind = "error"
            /\ outcome = ProviderError(calls[i])

\* the second term fails after the first term gave items
C3_Witness ==
    /\ Len(calls) = 2
    /\ Len(keywords) >= 2
    /\ calls[1].answer.ok
    /\ items # <<>>
    /\ ~calls[2].answer.ok
    /\ outcome.kind = "error"

----------------------------------------------------------------------------
(* C4: validation before network                                           *)

IsInvalidInput(o) == o.kind = "error" /\ o.status_code = 400

IsConfigError(o) ==
    /\ o.kind = "error"
    /\ o.status_code = 500
    /\ o.detail \in {"naver_keys_missing", "google_keys_missing"}

\* C4: a request that ended with InvalidInput (400) or ConfigError (missing
\* credentials) has issued no upstream call at all.
C4_ValidationBeforeNetwork ==
    (IsInvalidInput(outcome) \/ IsConfigError(outcome)) => calls = <<>>

\* missing credentials on a request of several terms
C4_Witness ==
    /\ IsConfigError(outcome)
    /\ req.endpoint = "news"
    /\ Len(keywords) >= 2
    /\ calls = <<>>

----------------------------------------------------------------------------
(* C5, C6: delivery                                                        *)

\* every term of a news request has had its provider call answered
AllProvidersSucceeded ==
    /\ req.endpoint = "news"
    /\ keywords # <<>>
    /\ Len(GetCalls) = Len(keywords)
    /\ \A i \in 1..Len(calls) : IsGet(calls[i]) => calls[i].answer.ok

\* C5: once all provider calls of a news request have succeeded, the request
\* ends with a response holding every merged item, whatever the POST did;
\* slack_sent is true exactly when one POST was issued and it completed
\* without an exception or error status, and a failure shows in the message.
C5_DeliveryNeverFails ==
    (pc = "done" /\ AllProvidersSucceeded) =>
        /\ outcome.kind = "response"
        /\ outcome.news = items
        /\ outcome.news_count = Len(items)
        /\ Len(PostCalls) <= 1
        /\ outcome.slack_sent <=>
              /\ Len(PostCalls) = 1
              /\ PostCalls[1].answer.exc = "none"
              /\ PostCalls[1].answer.status < 400
        /\ ~outcome.slack_sent => outcome.message = "slack_failed"

\* the POST fails with an HTTP error status and the items are returned
C5_Witness ==
    /\ pc = "done"
    /\ AllProvidersSucceeded
    /\ Len(PostCalls) = 1
    /\ PostCalls[1].answer.exc = "HTTPError"
    /\ outcome.kind = "response"
    /\ ~outcome.slack_sent
    /\ Len(outcome.news) >= 2

WebhookAbsentOrEmpty ==
    ~cfg.SLACK_WEBHOOK_URL.present \/ cfg.SLACK_WEBHOOK_URL.val = <<>>

\* C6: with the webhook URL absent or empty no POST is ever issued, and a
\* news request whose provider calls succeeded ends with a response holding
\* its merged items and slack_sent = false.
C6_NoWebhook ==
    WebhookAbsentOrEmpty =>
        /\ PostCalls = <<>>
        /\ (pc = "done" /\ AllProvidersSucceeded) =>
              /\ outcome.kind = "response"
              /\ outcome.news = items
              /\ outcome.slack_sent = FALSE

\* an empty webhook URL, items returned
C6_Witness ==
    /\ cfg.SLACK_WEBHOOK_URL = Some(<<>>)
    /\ pc = "done"
    /\ AllProvidersSucceeded
    /\ outcome.kind = "response"
    /\ outcome.news # <<>>
    /\ outcome.slack_sent = FALSE

----------------------------------------------------------------------------
(* C7: date window of search_news                                          *)

\* s has the shape YYYY-MM-DD
IsYMD(s) ==
    /\ Len(s) = 10
    /\ \A i \in {1, 2, 3, 4, 6, 7, 9, 10} : IsDigit(s[i])
    /\ s[5] = "-"
    /\ s[8] = "-"

\* C7: in search_news an absent end date is the current local date and an
\* absent start date that date minus 7 days; a present value that is not
\* YYYY-MM-DD fails with InvalidInput naming the field; a resolved window
\* with start after end fails with InvalidInput; whenever a provider call
\* is issued the window satisfies start <= end.
C7_DateWindow ==
    (req.endpoint = "news" /\ pc # "start") =>
        LET startAbsent == ~Truthy(req.start_date)
            endAbsent   == ~Truthy(req.end_date)
            start       == IF startAbsent THEN Strftime(MinusDays(now, 7))
                           ELSE req.start_date.val
            end         == IF endAbsent THEN Strftime(now)
                           ELSE req.end_date.val
        IN  /\ (~startAbsent /\ ~IsYMD(start)) =>
                  /\ IsInvalidInput(outcome)
                  /\ outcome.detail = "start_date_format"
            /\ (IsYMD(start) /\ ~endAbsent /\ ~IsYMD(end)) =>
                  /\ IsInvalidInput(outcome)
                  /\ outcome.detail = "end_date_format"
            /\ (/\ validate_date_format(start) /\ validate_date_format(end)
                /\ ~DateLE(Strptime(start), Strptime(end))) =>
                  /\ IsInvalidInput(outcome)
                  /\ outcome.detail = "start_after_end"
            /\ calls # <<>> =>
                  /\ window = [start_date |-> start, end_date |-> end]
                  /\ DateLE(Strptime(start), Strptime(end))

----------------------------------------------------------------------------
(* C8: ranking and truncation of get_naver_news (SpecRank)                 *)

\* the score get_naver_news gives the upstream item at position i
CandidateScore(i) ==
    IF fin.use_relevance_filter
    THEN _relevance_score(fin.keyword, StripTags(fin.data[i].title),
                          StripTags(fin.data[i].description))
    ELSE 0

\* upstream position i comes before upstream position j in a stable sort by
\* descending score
RanksBefore(i, j) ==
    \/ CandidateScore(i) > CandidateScore(j)
    \/ CandidateScore(i) = CandidateScore(j) /\ i < j

\* C8: the returned list is the first max_results candidates in the order of
\* a stable sort by descending score: it has min(max_results, candidates)
\* items, each a distinct upstream item, a returned item ranks before the
\* returned items after it and before every omitted candidate (so no omitted
\* candidate has a higher score); without ranking it is the upstream prefix.
C8_RankingTruncation ==
    (pc = "returned" /\ fin \in RankArgs) =>
        LET n == Len(fin.data)
            m == Len(fout)
            returned == {fout[k].link : k \in 1..m}
        IN  /\ m = Min(fin.max_results, n)
            /\ \A k \in 1..m :
                  /\ fout[k].link \in 1..n
                  /\ fout[k].title = StripTags(fin.data[fout[k].link].title)
            /\ \A k, l \in 1..m : k < l => RanksBefore(fout[k].link, fout[l].link)
            /\ \A k \in 1..m : \A j \in (1..n) \ returned :
                  /\ RanksBefore(fout[k].link, j)
                  /\ CandidateScore(j) <= CandidateScore(fout[k].link)
            /\ ~fin.use_relevance_filter => \A k \in 1..m : fout[k].link = k

\* ranking reorders the upstream list, keeps a tie in upstream order and
\* omits a candidate
C8_Witness ==
    /\ pc = "returned"
    /\ fin \in RankArgs
    /\ fin.use_relevance_filter
    /\ Len(fin.data) > fin.max_results
    /\ \E k \in 1..(Len(fout) - 1) : fout[k].link > fout[k + 1].link
    /\ \E k \in 1..(Len(fout) - 1) :
          /\ CandidateScore(fout[k].link) = CandidateScore(fout[k + 1].link)
          /\ fout[k].link < fout[k + 1].link

----------------------------------------------------------------------------
(* C9: relevance score (SpecScore)                                         *)

MatchPositions(text, sub) == {i \in 1..Len(text) : MatchAt(text, sub, i)}

\* the largest number of occurrences of sub in text no two of which overlap
Occurrences(text, sub) ==
    LET disjoint == {S \in SUBSET MatchPositions(text, sub) :
                        \A i, j \in S : i < j => j - i >= Len(sub)}
    IN  CHOOSE k \in 0..Len(text) :
            /\ \E S \in disjoint : Cardinality(S) = k
            /\ \A S \in disjoint : Cardinality(S) <= k

IsBlank(s) == \A i \in 1..Len(s) : s[i] \in WS

\* C9 as stated: the score is 2 * occurrences(term, title) +
\* occurrences(term, summary) for the term as given, and 0 for an empty or
\* whitespace-only term.
C9_ScoreOfGivenTerm ==
    (pc = "returned" /\ fin \in ScoreArgs) =>
        /\ fout >= 0
        /\ fout = IF IsBlank(fin.keyword) THEN 0
                  ELSE 2 * Occurrences(fin.title, fin.keyword)
                         + Occurrences(fin.description, fin.keyword)

\* the term without its leading and trailing whitespace
Trimmed(s) ==
    LET keep == {i \in 1..Len(s) : s[i] \notin WS}
    IN  IF keep = {} THEN <<>>
        ELSE LET lo == CHOOSE i \in keep : \A j \in keep : i <= j
                 hi == CHOOSE i \in keep : \A j \in keep : j <= i
             IN  SubSeq(s, lo, hi)

\* C9 (amended): the score is 2 * occurrences(t, title) +
\* occurrences(t, summary) where t is the term with leading and trailing
\* whitespace removed and occurrences are case-sensitive and non-overlapping;
\* it is never negative and is 0 for an empty or whitespace-only term.
C9_ScoreOfTrimmedTerm ==
    (pc = "returned" /\ fin \in ScoreArgs) =>
        /\ fout >= 0
        /\ fout = IF IsBlank(fin.keyword) THEN 0
                  ELSE 2 * Occurrences(fin.title, Trimmed(fin.keyword))
                         + Occurrences(fin.description, Trimmed(fin.keyword))

\* term "AI", title "AI policy AI", summary "new AI rules": 5
C9_Witness ==
    /\ pc = "returned"
    /\ fin = ExampleScoreArgs
    /\ fout = 5

----------------------------------------------------------------------------
(* C10: error mapping of get_naver_news                                    *)

\* C10: a failed call of the commercial-news client ends the request with
\* one error: timeout 504, HTTP 401 as 401, HTTP 429 as 429, any other HTTP
\* status 500 quoting the upstream status, any other failure 500; never a
\* response.
C10_NaverErrorMapping ==
    \A i \in 1..Len(calls) :
        (calls[i].api = "naver" /\ ~calls[i].answer.ok) =>
            LET f == calls[i].answer
            IN  /\ outcome.kind = "error"
                /\ f.exc = "Timeout" =>
                      outcome.status_code = 504 /\ outcome.detail = "naver_timeout"
                /\ (f.exc = "HTTPError" /\ f.status = 401) =>
                      outcome.status_code = 401 /\ outcome.detail = "naver_auth"
                /\ (f.exc = "HTTPError" /\ f.status = 429) =>
                      /\ outcome.status_code = 429
                      /\ outcome.detail = "naver_rate_limit"
                /\ (f.exc = "HTTPError" /\ f.status \notin {401, 429}) =>
                      /\ outcome.status_code = 500
                      /\ outcome.detail = "naver_http_error"
                      /\ outcome.upstream_status = f.status
                /\ f.exc \in {"RequestException", "Exception"} =>
                      /\ outcome.status_code = 500
                      /\ outcome.detail \in {"naver_request_error", "naver_unexpected"}
                      /\ outcome.upstream_status = 0

\* HTTP 429 on the second term after items of the first
C10_Witness ==
    /\ Len(calls) = 2
    /\ calls[2].api = "naver"
    /\ calls[1].answer.ok
    /\ items # <<>>
    /\ ~calls[2].answer.ok
    /\ calls[2].answer.exc = "HTTPError"
    /\ calls[2].answer.status = 429
    /\ outcome.kind = "error"
    /\ outcome.status_code = 429

----------------------------------------------------------------------------
(* C11: HTTP 403 of the web search                                         *)

\* C11: a failed page request of the web search ends search_research with
\* one error: HTTP 403 as 403 with the billing guidance (never the generic
\* 500), any other HTTP status as the generic 500 quoting the status, a
\* timeout as 504.
C11_ResearchForbidden ==
    \A i \in 1..Len(calls) :
        (calls[i].api = "cse" /\ ~calls[i].answer.ok) =>
            LET f == calls[i].answer
            IN  /\ pc = "done"
                /\ outcome.kind = "error"
                /\ (f.exc = "HTTPError" /\ f.status = 403) =>
                      /\ outcome.status_code = 403
                      /\ outcome.detail = "research_forbidden_billing"
                /\ (f.exc = "HTTPError" /\ f.status # 403) =>
                      /\ outcome.status_code = 500
                      /\ outcome.detail = "research_http_error"
                      /\ outcome.upstream_status = f.status
                /\ f.exc = "Timeout" =>
                      /\ outcome.status_code = 504
                      /\ outcome.detail = "research_timeout"

\* HTTP 403 on the second page of a term
C11_Witness ==
    /\ req.endpoint = "research"
    /\ Len(calls) = 2
    /\ calls[2].start = 11
    /\ ~calls[2].answer.ok
    /\ calls[2].answer.exc = "HTTPError"
    /\ calls[2].answer.status = 403
    /\ outcome.kind = "error"
    /\ outcome.status_code = 403

----------------------------------------------------------------------------
(* C12: malformed RSS feed                                                 *)

\* the feed request was answered, but the body is not well-formed XML or has
\* no channel element
MalformedFeed(a) ==
    \/ a.ok /\ ~a.channel
    \/ ~a.ok /\ a.exc = "ParseError"

\* C12: a feed answer whose body is not well-formed XML or has no channel
\* element gives the empty list for its term, not an error, and the
\* aggregation goes on with the next term.
C12_MalformedFeedIsEmpty ==
    \A i \in 1..Len(calls) :
        (calls[i].api = "rss" /\ MalformedFeed(calls[i].answer)) =>
            /\ ~(outcome.kind = "error" /\ i = Len(calls))
            /\ ProviderResult(i) = <<>>
            /\ pc \in {"notify", "done"} \/ kwIdx > i

----------------------------------------------------------------------------
(* C13: keyword parsing (SpecParse)                                        *)

\* positions that bound a segment of raw: before the first character, every
\* comma or newline, after the last character
Bounds(raw) ==
    {0} \cup {i \in 1..Len(raw) : raw[i] \in {",", "\n"}} \cup {Len(raw) + 1}

\* the segment of raw that starts after the bounding position a
SegmentAfter(raw, a) ==
    LET b == CHOOSE p \in Bounds(raw) :
                /\ p > a
                /\ \A q \in Bounds(raw) : q > a => p <= q
    IN  SubSeq(raw, a + 1, b - 1)

\* the bounding positions whose segment is not blank
KeptSegments(raw) ==
    {a \in Bounds(raw) \ {Len(raw) + 1} : ~IsBlank(SegmentAfter(raw, a))}

\* C13: parse_keywords returns the segments between commas and newlines,
\* each without its leading and trailing whitespace, blank segments left
\* out, in their order in the input, a repeated term as often as it
\* occurs; empty or whitespace-only input gives the empty list, and the
\* endpoints answer an empty list with InvalidInput (400).
C13_KeywordParsing ==
    (pc \in {"returned", "checked"} /\ fin \in RawInputs) =>
        LET kept == KeptSegments(fin)
        IN  /\ Len(fout) = Cardinality(kept)
            /\ \A a \in kept :
                  fout[Cardinality({b \in kept : b <= a})]
                      = Trimmed(SegmentAfter(fin, a))
            /\ IsBlank(fin) => fout = <<>>
            /\ pc = "checked" =>
                  /\ fout = <<>> => IsInvalidInput(outcome)
                  /\ fout # <<>> => outcome = NoOutcome

\* "A,\nA": the separators collapse and the repeated term stays
C13_Witness ==
    /\ pc = "checked"
    /\ fin = <<"A", ",", "\n", "A">>
    /\ fout = <<(<<"A">>), (<<"A">>)>>
    /\ outcome = NoOutcome

----------------------------------------------------------------------------
(* C14: date fallback (SpecDate)                                           *)

\* C14: a record of the commercial-news or RSS answer whose date is absent
\* or unreadable gives an article dated the local current date; dates take
\* no record away (the list has as many articles as records, up to
\* max_results, and every record is there when max_results allows), the
\* records with a readable date keep that date in local time, and the
\* call returns a list.
C14_DateFallback ==
    (pc = "returned" /\ fin \in DateArgs) =>
        LET data == fin.data
        IN  /\ Len(fout) = Min(Len(data), fin.max_results)
            /\ \A j \in 1..Len(fout) :
                  LET i == fout[j].link
                  IN  /\ i \in 1..Len(data)
                      /\ data[i].pubDate.kind # "ok" =>
                            fout[j].pubDate = Strftime(now)
                      /\ data[i].pubDate.kind = "ok" =>
                            fout[j].pubDate =
                                Strftime(IF data[i].pubDate.hour >= 15
                                         THEN NextDay(data[i].pubDate.date)
                                         ELSE data[i].pubDate.date)
            /\ Len(data) <= fin.max_results =>
                  \A i \in 1..Len(data) :
                      \E j \in 1..Len(fout) : fout[j].link = i
            /\ outcome = NoOutcome

\* an unreadable date, a readable one and a missing one in one answer
C14_Witness ==
    /\ pc = "returned"
    /\ fin \in DateArgs
    /\ Len(fin.data) = 3
    /\ fin.data[1].pubDate.kind = "bad"
    /\ fin.data[2].pubDate.kind = "ok"
    /\ fin.data[3].pubDate.kind = "absent"
    /\ Len(fout) = 3
    /\ \E j \in 1..3 : fout[j].link = 1 /\ fout[j].pubDate = Strftime(now)
    /\ \E j \in 1..3 : fout[j].link = 3 /\ fout[j].pubDate = Strftime(now)
    /\ \E j \in 1..3 : fout[j].link = 2 /\ fout[j].pubDate # Strftime(now)

----------------------------------------------------------------------------
(* C15: the date parameters of a web-search page request (Spec)            *)

\* start_date and end_date are both given
RangeSupplied == Truthy(req.start_date) /\ Truthy(req.end_date)

\* C15: no page request carries both sort and dateRestrict; when start_date
\* and end_date are both given every page request carries the date-range
\* sort expression of the two dates and no dateRestrict; a dateRestrict is
\* only sent when the two dates are not both given, and is the request's
\* date_restrict; a request with both dates valid and in order is not
\* answered with InvalidInput, date_restrict or not.
C15_DateRestrictExclusive ==
    req.endpoint = "research" =>
        /\ \A i \in 1..Len(calls) :
              calls[i].api = "cse" =>
                  /\ ~(Truthy(calls[i].sort) /\ Truthy(calls[i].dateRestrict))
                  /\ RangeSupplied =>
                        /\ calls[i].sort =
                              Some(<<"d", "a", "t", "e", ":", "r", ":">>
                                   \o RemoveDashes(req.start_date.val)
                                   \o <<":">>
                                   \o RemoveDashes(req.end_date.val))
                        /\ calls[i].dateRestrict = None
                  /\ Truthy(calls[i].dateRestrict) =>
                        /\ ~RangeSupplied
                        /\ calls[i].dateRestrict = req.date_restrict
        /\ ( /\ RangeSupplied
             /\ validate_date_format(req.start_date.val)
             /\ validate_date_format(req.end_date.val)
             /\ DateLE(Strptime(req.start_date.val), Strptime(req.end_date.val))
             /\ parse_keywords(req.keyword) # <<>> ) =>
                ~IsInvalidInput(outcome)

\* a search with both dates and a date_restrict that went through two page
\* requests and returned
C15_Witness ==
    /\ req.endpoint = "research"
    /\ RangeSupplied
    /\ Truthy(req.date_restrict)
    /\ pc = "done"
    /\ outcome.kind = "response"
    /\ Len(calls) >= 2
    /\ \A i \in 1..Len(calls) :
          calls[i].api = "cse" /\ Truthy(calls[i].sort)

----------------------------------------------------------------------------
(* C16: every upstream call is attempted once (Spec)                       *)

\* provider requests a request over n terms may make
MaxProviderCalls ==
    (IF req.endpoint = "research" THEN Len(PageStarts) ELSE 1) * Len(keywords)

\* each provider request is the only one of its term (and page start), a
\* failed request is the last call, and the one POST comes after a
\* successful request for every term
CallsAtMostOnce ==
    /\ Len(PostCalls) <= 1
    /\ Len(GetCalls) <= MaxProviderCalls
    /\ Len(calls) <= MaxProviderCalls + 1
    /\ \A i \in 1..Len(calls) :
          /\ IsPost(calls[i]) =>
                /\ req.endpoint = "news"
                /\ i = Len(calls)
                /\ i = Len(keywords) + 1
                /\ \A j \in 1..(i - 1) : IsGet(calls[j]) /\ calls[j].answer.ok
          /\ (IsGet(calls[i]) /\ calls[i].api # "cse") =>
                /\ i <= Len(keywords)
                /\ calls[i].query = keywords[i]
          /\ (IsGet(calls[i]) /\ calls[i].api = "cse") =>
                /\ TermOf(i) \in 1..Len(keywords)
                /\ calls[i].query = keywords[TermOf(i)]
                /\ \E p \in 1..Len(PageStarts) : calls[i].start = PageStarts[p]
                /\ \A j \in 1..(i - 1) :
                      TermOf(j) = TermOf(i) => calls[j].start < calls[i].start
          /\ ~calls[i].answer.ok => i = Len(calls)

\* an upper bound of the steps a request has left
StepsLeft ==
    IF pc = "done" THEN 0
    ELSE IF pc = "notify" THEN 1
    ELSE IF pc = "news_loop" THEN (Len(keywords) - kwIdx + 1) + 1
    ELSE IF pc = "research_loop"
    THEN Len(PageStarts) * (Len(keywords) - kwIdx)
         + (Len(PageStarts) - pageIdx + 1)
    ELSE Len(PageStarts) * Len(parse_keywords(req.keyword)) + 2

\* the guard of one of the steps of Next holds
StepGuard ==
    \/ pc = "start" /\ req.endpoint \in {"news", "research"}
    \/ /\ pc = "news_loop"
       /\ req.provider \in {"naver", "google"}
       /\ kwIdx \in 1..Len(keywords)
    \/ pc = "notify"
    \/ /\ pc = "research_loop"
       /\ kwIdx \in 1..Len(keywords)
       /\ pageIdx \in 1..Len(PageStarts)

\* a request that has not ended is at a step it can take, and one that has
\* ended holds a response or an error
EndsWithOutcome ==
    /\ StepsLeft >= 0
    /\ pc # "done" => StepGuard
    /\ pc = "done" => outcome.kind \in {"response", "error"}

\* C16: within one request there is at most one GET per term for the news
\* providers, at most one GET per term and page start for web search, and
\* at most one POST, made only after the provider request of the last term
\* succeeded; a failed call is followed by no other call, so n terms make
\* at most n provider requests (3n for web search) and one POST; every
\* step brings the request nearer to its end, where it holds a response or
\* an error.
C16_SingleAttempt ==
    /\ [](CallsAtMostOnce /\ EndsWithOutcome)
    /\ [][StepsLeft' < StepsLeft]_vars

\* two terms, a GET for each and the POST, in a request that returned
C16_Witness ==
    /\ pc = "done"
    /\ outcome.kind = "response"
    /\ Len(keywords) = 2
    /\ Len(calls) = 3
    /\ IsGet(calls[1]) /\ IsGet(calls[2]) /\ IsPost(calls[3])
    /\ StepsLeft = 0

====
